---- MODULE Spec2Model ----
(***************************************************************************)
(* Model of the qgss-2025 utilities.                                       *)
(*                                                                         *)
(*   lab-2/utils.py        zne_method and the three fit models             *)
(*   lab-3/utils/utils.py  zigzag layout generation and error scoring      *)
(*                                                                         *)
(* Python lists are sequences (1-based here, 0-based in the source, so a   *)
(* virtual node n is position n + 1 of a layout).  Error rates are         *)
(* naturals (a fixed-point scale of the floats of the backend).            *)
(***************************************************************************)
EXTENDS Integers, Sequences, FiniteSets

VARIABLES
    \* ---- lab-2: one call of zne_method
    zpc,            \* "call" | "fit" | "returned" | "raised"
    method,         \* the method argument
    ydata,          \* the ydata argument
    popt,           \* parameters curve_fit produced
    fits,           \* number of curve_fit calls made
    zret,           \* the returned tuple <<zero_val, ydata, popt, fit_fn>>
    zerr,           \* the exception raised, "" when none
    \* ---- lab-3: one call of lightweight_layout_error_scoring
    spc,            \* "loop" | "returned" | "raised"
    props,          \* backend.properties(): [gate, readout]
    virtual_edges,
    physical_layouts,
    bad_readout_qubits,
    bad_czgate_edges,
    idx,            \* number of layouts the for loop has consumed
    scores,         \* the local list scores
    sret,           \* the returned list
    \* ---- lab-3: one call of get_zigzag_physical_layout
    lpc,            \* "cmap" | "cmap_loop" | "lucj" | "select" | "scored" |
                    \* "returned" | "raised"
    nqubits,        \* the backend has qubits 0..nqubits-1
    coupling_map,   \* backend.coupling_map as built: a list of directed pairs
    digraph,        \* backend.coupling_map.graph, which make_symmetric extends
    num_orbitals,
    num_ancillas,
    score_layouts,
    graph,          \* backend_coupling_graph: the list of its undirected edges
    edge_list,      \* the local edge_list
    epos,           \* number of entries of edge_list the loop has consumed
    removed_edge,   \* the local removed_edge
    num_iters,
    isomorphic,
    G_new,          \* [n, edges]: nodes 0..n-1 and the list of edges
    num_alpha_beta_qubits,
    layouts,        \* the local layouts
    selected,       \* the layout chosen before the connecting qubits are cut
    lret,           \* the returned tuple <<layout, num_alpha_beta_qubits>>
    lerr            \* the exception raised, "" when none

zvars == <<zpc, method, ydata, popt, fits, zret, zerr>>
sargs == <<props, bad_readout_qubits, bad_czgate_edges>>
sloc == <<spc, virtual_edges, physical_layouts, idx, scores, sret>>
svars == <<sargs, sloc>>
cvars == <<nqubits, coupling_map, digraph, graph, edge_list, epos, removed_edge>>
gvars == <<num_orbitals, num_ancillas, score_layouts, num_iters, isomorphic, G_new,
           num_alpha_beta_qubits, layouts, selected, lret, lerr>>
lvars == <<lpc, cvars, gvars>>
vars == <<zvars, svars, lvars>>

\* ------------------------------------------------------------------------
\* Bounds
\* ------------------------------------------------------------------------
MaxParam == 2          \* fitted parameters range over -MaxParam..MaxParam
MaxData == 2           \* ydata has at most MaxData points, each in 0..1
MaxLayouts == 3        \* physical_layouts has at most MaxLayouts entries
MaxCmapQubits == 3     \* qubits of the coupling maps of SpecCmap
MaxCmapEdges == 4      \* directed pairs a coupling map of SpecCmap lists
MaxQubits == 12        \* qubits of the ring backends of SpecLayout
MaxOrbitals == 4       \* num_orbitals ranges over 1..MaxOrbitals
MaxAncillas == 1       \* num_ancillas ranges over 0..MaxAncillas
MaxExtraIters == 1     \* passes of the while loop allowed after num_iters = 0

\* ------------------------------------------------------------------------
\* Helpers on sequences
\* ------------------------------------------------------------------------
SeqsUpTo(S, n) == UNION {[1..k -> S] : k \in 0..n}

Rev(e) == <<e[2], e[1]>>

\* ========================================================================
\* lab-2/utils.py
\* ========================================================================

\* np.exp on the only argument zne_method ever evaluates it at: -b * 0.
exp(z) == CASE z = 0 -> 1

\* linear_model with its two parameters exchanged.
linear_model_swapped(x, a, b) == b * x + a

linear_model(x, a, b) == a * x + b

quadratic_model(x, a, b, c) == a * x * x + b * x + c

exponential_model(x, a, b, c) == a * exp((0 - b) * x) + c

Methods == {"linear", "quadratic", "exponential", "cubic", ""}

KnownMethods == {"linear", "quadratic", "exponential"}

\* The model function the dispatch selects for a method.
FitFnOf(m) ==
    CASE m = "linear" -> "linear_model"
      [] m = "quadratic" -> "quadratic_model"
      [] m = "exponential" -> "exponential_model"

\* curve_fit fits one parameter per argument of the model after x.
NumParams(fn) == IF fn = "linear_model" THEN 2 ELSE 3

\* fit_fn(x, *popt)
Apply(fn, x, p) ==
    CASE fn = "linear_model" -> linear_model(x, p[1], p[2])
      [] fn = "quadratic_model" -> quadratic_model(x, p[1], p[2], p[3])
      [] fn = "exponential_model" -> exponential_model(x, p[1], p[2], p[3])

ZInit ==
    /\ zpc = "call"
    /\ method \in Methods
    /\ ydata \in SeqsUpTo(0..1, MaxData)
    /\ popt = <<>>
    /\ fits = 0
    /\ zret = <<>>
    /\ zerr = ""

\* The if/elif chain reaches a curve_fit call, which yields some parameters
\* or raises (too few points, no convergence within maxfev).
ZneFit ==
    /\ zpc = "call"
    /\ method \in KnownMethods
    /\ fits' = fits + 1
    /\ \/ /\ \E p \in [1..NumParams(FitFnOf(method)) -> (0 - MaxParam)..MaxParam] :
                popt' = p
          /\ zpc' = "fit"
          /\ zerr' = zerr
       \/ /\ popt' = popt
          /\ zpc' = "raised"
          /\ zerr' = "RuntimeError"
    /\ UNCHANGED <<method, ydata, zret, svars, lvars>>

\* zero_val = model(0, *popt); fit_fn = model; return.
ZneReturn ==
    /\ zpc = "fit"
    /\ zret' = <<Apply(FitFnOf(method), 0, popt), ydata, popt, FitFnOf(method)>>
    /\ zpc' = "returned"
    /\ UNCHANGED <<method, ydata, popt, fits, zerr, svars, lvars>>

\* The else branch.
ZneUnknown ==
    /\ zpc = "call"
    /\ method \notin KnownMethods
    /\ zerr' = "ValueError"
    /\ zpc' = "raised"
    /\ UNCHANGED <<method, ydata, popt, fits, zret, svars, lvars>>

\* ========================================================================
\* lab-3/utils/utils.py: lightweight_layout_error_scoring
\* ========================================================================

\* props.gate_error(two_q_gate_name, edge): <<error>>, or <<>> when the
\* backend reports no such gate on that ordered pair (the lookup raises).
gate_error(pr, edge) ==
    IF edge \in DOMAIN pr.gate THEN <<pr.gate[edge]>> ELSE <<>>

readout_error(pr, qubit) == pr.readout[qubit]

\* physical_edge = (layout[edge[0]], layout[edge[1]])
PhysicalEdge(layout, edge) == <<layout[edge[1] + 1], layout[edge[2] + 1]>>

\* any(q in bad_readout_qubits for q in layout)
HasBadReadout(layout, badq) == \E i \in DOMAIN layout : layout[i] \in badq

\* The skip loop without the test of the reversed pair.
HasBadEdge_forward_only(layout, vedges, bade) ==
    \E k \in DOMAIN vedges : PhysicalEdge(layout, vedges[k]) \in bade

\* The skip loop over virtual_edges.
HasBadEdge(layout, vedges, bade) ==
    \E k \in DOMAIN vedges :
        \/ PhysicalEdge(layout, vedges[k]) \in bade
        \/ Rev(PhysicalEdge(layout, vedges[k])) \in bade

\* The lookup with the two directions tried in the other order.
EdgeError_reverse_first(pr, pe) ==
    IF gate_error(pr, Rev(pe)) # <<>> THEN gate_error(pr, Rev(pe)) ELSE gate_error(pr, pe)

\* try: forward lookup; except: reverse lookup (which may raise in turn).
EdgeError(pr, pe) ==
    IF gate_error(pr, pe) # <<>> THEN gate_error(pr, pe) ELSE gate_error(pr, Rev(pe))

\* total_2q_error over virtual_edges[1..k]: <<sum>>, or <<>> when a lookup
\* raised in both directions.
RECURSIVE Total2qError(_, _, _, _)
Total2qError(pr, layout, vedges, k) ==
    IF k = 0 THEN <<0>>
    ELSE LET rest == Total2qError(pr, layout, vedges, k - 1)
             ge == EdgeError(pr, PhysicalEdge(layout, vedges[k]))
         IN  IF rest = <<>> \/ ge = <<>> THEN <<>> ELSE <<rest[1] + ge[1]>>

RECURSIVE TotalMeasurementError(_, _, _)
TotalMeasurementError(pr, layout, k) ==
    IF k = 0 THEN 0
    ELSE TotalMeasurementError(pr, layout, k - 1) + readout_error(pr, layout[k])

\* One iteration of the for loop over physical_layouts, on the list so far:
\* [raised, scores].
ScoreStep(pr, vedges, layout, badq, bade, sc) ==
    IF HasBadReadout(layout, badq) \/ HasBadEdge(layout, vedges, bade)
    THEN [raised |-> FALSE, scores |-> sc]
    ELSE LET t2 == Total2qError(pr, layout, vedges, Len(vedges))
         IN  IF t2 = <<>>
             THEN [raised |-> TRUE, scores |-> sc]
             ELSE [raised |-> FALSE,
                   scores |-> Append(sc,
                       <<layout, t2[1] + TotalMeasurementError(pr, layout, Len(layout))>>)]

\* Insert x after every entry whose key is <= its own (stable).
RECURSIVE InsertByScore(_, _)
InsertByScore(s, x) ==
    IF s = <<>> THEN <<x>>
    ELSE IF s[Len(s)][2] <= x[2] THEN Append(s, x)
    ELSE Append(InsertByScore(SubSeq(s, 1, Len(s) - 1), x), s[Len(s)])

\* The return without the sort.
SortedByScore_unsorted(s) == s

\* sorted(scores, key=lambda x: x[1])
RECURSIVE SortedByScore(_)
SortedByScore(s) ==
    IF s = <<>> THEN <<>>
    ELSE InsertByScore(SortedByScore(SubSeq(s, 1, Len(s) - 1)), s[Len(s)])

\* The backend of a scoring call: four qubits on a ring.
ScoreQubits == 0..3

RingPairs == {e \in ScoreQubits \X ScoreQubits : e[2] = (e[1] + 1) % 4}

\* Layouts of the three virtual nodes 0, 1, 2: the ways to lay a chain of
\* three along the ring, in either direction.
ScoreLayouts ==
    {l \in [1..3 -> ScoreQubits] :
        \/ <<l[1], l[2]>> \in RingPairs /\ <<l[2], l[3]>> \in RingPairs
        \/ <<l[2], l[1]>> \in RingPairs /\ <<l[3], l[2]>> \in RingPairs}

VirtualEdgePool == {<<0, 1>>, <<1, 0>>, <<1, 2>>}

\* Gate-error tables: an ECR-like device reports each coupling in one
\* direction only; the second reports two of the couplings in both, with
\* unequal figures; the third lacks the coupling of qubits 2 and 3 altogether.
GateTables ==
    { [e \in RingPairs |-> 1 + ((e[1] + 2 * e[2]) % 3)],
      [e \in RingPairs \cup {<<1, 0>>, <<2, 1>>} |-> 1 + ((e[1] + 2 * e[2]) % 3)],
      [e \in RingPairs \ {<<2, 3>>} |-> 1 + ((2 * e[1] + e[2]) % 3)] }

ReadoutTable == [q \in ScoreQubits |-> 1 + ((2 * q) % 3)]

SInit ==
    /\ spc = "loop"
    /\ props \in [gate : GateTables, readout : {ReadoutTable}]
    /\ virtual_edges \in SeqsUpTo(VirtualEdgePool, 2)
    /\ physical_layouts = <<>>
    /\ bad_readout_qubits \in {{}, {0}, {2}}
    /\ bad_czgate_edges \in {{}, {<<0, 1>>}, {<<2, 1>>}}
    /\ idx = 0
    /\ scores = <<>>
    /\ sret = <<>>

\* The for loop takes the next layout of physical_layouts (the argument is
\* revealed one entry at a time) and skips, scores or raises on it.
ScoreLayout ==
    /\ spc = "loop"
    /\ idx < MaxLayouts
    /\ \E layout \in ScoreLayouts :
        LET r == ScoreStep(props, virtual_edges, layout, bad_readout_qubits,
                           bad_czgate_edges, scores)
        IN  /\ physical_layouts' = Append(physical_layouts, layout)
            /\ idx' = idx + 1
            /\ scores' = r.scores
            /\ spc' = IF r.raised THEN "raised" ELSE "loop"
    /\ UNCHANGED <<props, virtual_edges, bad_readout_qubits, bad_czgate_edges, sret,
                   zvars, lvars>>

\* physical_layouts is exhausted: return sorted(scores, key=...).
ScoreReturn ==
    /\ spc = "loop"
    /\ sret' = SortedByScore(scores)
    /\ spc' = "returned"
    /\ UNCHANGED <<props, virtual_edges, physical_layouts, bad_readout_qubits,
                   bad_czgate_edges, idx, scores, zvars, lvars>>

\* ========================================================================
\* lab-3/utils/utils.py: _make_backend_cmap_pygraph
\* ========================================================================
Range(s) == {s[i] : i \in DOMAIN s}

\* PyDiGraph.is_symmetric(): every edge has its reverse.
is_symmetric(d) == \A i \in DOMAIN d : Rev(d[i]) \in Range(d)

\* PyDiGraph.make_symmetric(): for each of the first k edges, in order, the
\* reversed edge is added unless one is already present.
RECURSIVE make_symmetric(_, _)
make_symmetric(d, k) ==
    IF k = 0 THEN d
    ELSE LET acc == make_symmetric(d, k - 1)
         IN  IF Rev(d[k]) \in Range(acc) THEN acc ELSE Append(acc, Rev(d[k]))

\* PyDiGraph.to_undirected(): one undirected edge per directed edge (the
\* result is a multigraph), in the same order.
to_undirected(d) == d

\* Whether the undirected multigraph g has an edge between u and v.
HasEdgeBetween(g, u, v) ==
    \E i \in DOMAIN g : g[i] = <<u, v>> \/ g[i] = <<v, u>>

\* PyGraph.remove_edge(u, v): one edge between u and v goes.
RemoveOneEdge(g, u, v) ==
    LET i == CHOOSE j \in DOMAIN g :
                 /\ g[j] = <<u, v>> \/ g[j] = <<v, u>>
                 /\ \A h \in 1..(j - 1) : ~(g[h] = <<u, v>> \/ g[h] = <<v, u>>)
    IN  SubSeq(g, 1, i - 1) \o SubSeq(g, i + 1, Len(g))

\* The loop body without the test of removed_edge.
RemoveStep_no_dedup(g, removed, edge) ==
    IF HasEdgeBetween(g, edge[1], edge[2])
    THEN [graph |-> RemoveOneEdge(g, edge[1], edge[2]),
          removed |-> removed \cup {{edge[1], edge[2]}}]
    ELSE [graph |-> g, removed |-> removed]

\* One iteration of the loop over edge_list: [graph, removed].
RemoveStep(g, removed, edge) ==
    IF {edge[1], edge[2]} \in removed
    THEN [graph |-> g, removed |-> removed]
    ELSE IF HasEdgeBetween(g, edge[1], edge[2])
         THEN [graph |-> RemoveOneEdge(g, edge[1], edge[2]),
               removed |-> removed \cup {{edge[1], edge[2]}}]
         ELSE [graph |-> g, removed |-> removed]     \* NoEdgeBetweenNodes: pass

\* Lines 184-190: symmetrize the backend's own graph, copy it undirected.
CmapToUndirected ==
    /\ lpc = "cmap"
    /\ LET sym == IF is_symmetric(digraph) THEN digraph
                  ELSE make_symmetric(digraph, Len(digraph))
       IN  /\ digraph' = sym
           /\ graph' = to_undirected(sym)
           /\ edge_list' = to_undirected(sym)
    /\ epos' = 0
    /\ removed_edge' = {}
    /\ lpc' = "cmap_loop"
    /\ UNCHANGED <<nqubits, coupling_map, gvars, zvars, svars>>

\* Lines 191-198: the loop body on the next entry of edge_list.
CmapRemoveEdge ==
    /\ lpc = "cmap_loop"
    /\ epos < Len(edge_list)
    /\ LET r == RemoveStep(graph, removed_edge, edge_list[epos + 1])
       IN  /\ graph' = r.graph
           /\ removed_edge' = r.removed
    /\ epos' = epos + 1
    /\ UNCHANGED <<lpc, nqubits, coupling_map, digraph, edge_list, gvars, zvars, svars>>

\* Line 200, and lines 88-91 of the caller's next call: the graph is
\* returned and handed to create_lucj_zigzag_layout.
CmapReturn ==
    /\ lpc = "cmap_loop"
    /\ epos = Len(edge_list)
    /\ lpc' = "lucj"
    /\ UNCHANGED <<cvars, gvars, zvars, svars>>

\* ========================================================================
\* lab-3/utils/utils.py: create_linear_chains, create_lucj_zigzag_layout
\* ========================================================================

\* Two chains 0..N-1 and N..2N-1.
create_linear_chains(N) ==
    [n |-> 2 * N,
     edges |-> [i \in 1..(N - 1) |-> <<i - 1, i>>]
               \o [i \in 1..(N - 1) |-> <<N + i - 1, N + i>>]]

\* The for loop with the connecting node joined to n + 1 instead of
\* n + num_orbitals.
RECURSIVE ZigzagAfter_same_chain(_, _, _)
ZigzagAfter_same_chain(G, N, k) ==
    IF k <= 0 THEN [g |-> G, c |-> 0]
    ELSE LET prev == ZigzagAfter_same_chain(G, N, k - 1)
             n == k - 1
             new_node == 2 * N + prev.c
         IN  IF n % 4 = 0
             THEN [g |-> [n |-> prev.g.n + 1,
                          edges |-> prev.g.edges \o <<<<n, new_node>>, <<new_node, n + 1>>>>],
                   c |-> prev.c + 1]
             ELSE prev

\* The for loop over range(iters) after its first k iterations: [g, c].
RECURSIVE ZigzagAfter(_, _, _)
ZigzagAfter(G, N, k) ==
    IF k <= 0 THEN [g |-> G, c |-> 0]
    ELSE LET prev == ZigzagAfter(G, N, k - 1)
             n == k - 1
             new_node == 2 * N + prev.c
         IN  IF n % 4 = 0
             THEN [g |-> [n |-> prev.g.n + 1,
                          edges |-> prev.g.edges \o <<<<n, new_node>>, <<new_node, n + N>>>>],
                   c |-> prev.c + 1]
             ELSE prev

\* Number of edges between u and v in a list of undirected edges.
Multiplicity(edges, u, v) ==
    Cardinality({i \in DOMAIN edges : edges[i] = <<u, v>> \/ edges[i] = <<v, u>>})

Adjacency(G) ==
    [p \in (0..(G.n - 1)) \X (0..(G.n - 1)) |-> Multiplicity(G.edges, p[1], p[2])]

\* The VF2 feasibility of mapping the next pattern node onto backend node q,
\* given the nodes mapped so far (m[j] is the image of pattern node j - 1).
\* induced=True, the library's default: edges and non-edges both agree.
\* (The first conjunct is the last one's case j = Len(m), tested first.)
Feasible(PM, BM, m, q) ==
    /\ m # <<>> => PM[<<Len(m) - 1, Len(m)>>] = BM[<<m[Len(m)], q>>]
    /\ \A j \in DOMAIN m : m[j] # q
    /\ \A j \in DOMAIN m : PM[<<j - 1, Len(m)>>] = BM[<<m[j], q>>]

RECURSIVE CanExtend(_, _, _, _, _)
CanExtend(PM, BM, pn, bn, m) ==
    \/ Len(m) = pn
    \/ \E q \in 0..(bn - 1) :
           Feasible(PM, BM, m, q) /\ CanExtend(PM, BM, pn, bn, Append(m, q))

\* rustworkx.is_subgraph_isomorphic(B, P)
is_subgraph_isomorphic(B, P) ==
    CanExtend(Adjacency(P), Adjacency(B), P.n, B.n, <<>>)

\* Every complete extension of m that maps the next pattern node to q or more.
RECURSIVE Vf2From(_, _, _, _, _, _)
Vf2From(PM, BM, pn, bn, m, q) ==
    IF q >= bn THEN <<>>
    ELSE (IF Feasible(PM, BM, m, q)
          THEN IF Len(m) + 1 = pn THEN <<Append(m, q)>>
               ELSE Vf2From(PM, BM, pn, bn, Append(m, q), 0)
          ELSE <<>>)
         \o Vf2From(PM, BM, pn, bn, m, q + 1)

\* list(rustworkx.vf2_mapping(B, P, subgraph=True)) turned into layouts:
\* initial_layout[pattern node] = backend node.
vf2_layouts(B, P) ==
    IF P.n = 0 THEN << <<>> >>
    ELSE Vf2From(Adjacency(P), Adjacency(B), P.n, B.n, <<>>, 0)

\* The whole of lightweight_layout_error_scoring on the first k layouts:
\* [raised, scores] before the final sort.
RECURSIVE ScoreLoop(_, _, _, _, _, _)
ScoreLoop(pr, vedges, playouts, badq, bade, k) ==
    IF k = 0 THEN [raised |-> FALSE, scores |-> <<>>]
    ELSE LET prev == ScoreLoop(pr, vedges, playouts, badq, bade, k - 1)
         IN  IF prev.raised THEN prev
             ELSE ScoreStep(pr, vedges, playouts[k], badq, bade, prev.scores)

lightweight_layout_error_scoring(pr, vedges, playouts, badq, bade) ==
    LET r == ScoreLoop(pr, vedges, playouts, badq, bade, Len(playouts))
    IN  [raised |-> r.raised, scores |-> SortedByScore(r.scores)]

\* Python's l[:-c]: for c = 0 the stop index is -0 = 0.
SliceToMinus(l, c) == IF c = 0 THEN <<>> ELSE SubSeq(l, 1, Len(l) - c)

BackendGraph == [n |-> nqubits, edges |-> graph]

TotalOrbitals == num_orbitals + num_ancillas

\* Lines 93-105: one pass of the while loop.
LucjIterate ==
    /\ lpc = "lucj"
    /\ ~isomorphic
    /\ num_iters >= 0 - MaxExtraIters
    /\ LET z == ZigzagAfter(create_linear_chains(TotalOrbitals), TotalOrbitals, num_iters)
       IN  /\ G_new' = z.g
           /\ num_alpha_beta_qubits' = z.c
           /\ isomorphic' = is_subgraph_isomorphic(BackendGraph, z.g)
    /\ num_iters' = num_iters - 1
    /\ UNCHANGED <<lpc, cvars, num_orbitals, num_ancillas, score_layouts, layouts,
                   selected, lret, lerr, zvars, svars>>

\* Line 107 and lines 238-250: the pattern is returned and every mapping of
\* it into the backend graph becomes a layout.
LucjReturn ==
    /\ lpc = "lucj"
    /\ isomorphic
    /\ layouts' = vf2_layouts(BackendGraph, G_new)
    /\ lpc' = "select"
    /\ UNCHANGED <<cvars, num_orbitals, num_ancillas, score_layouts, num_iters,
                   isomorphic, G_new, num_alpha_beta_qubits, selected, lret, lerr,
                   zvars, svars>>

BadQubitChoices == {{}, {0}}

BadEdgeChoices == {{}, {<<2, 1>>}}

\* Two calibrations of a backend.
Seeds == {0, 1}

\* backend.properties(): the two-qubit gate is calibrated on exactly the
\* directed pairs of the coupling map.
BackendProps(seed) ==
    [gate |-> [e \in Range(coupling_map) |-> 1 + ((e[1] + 2 * e[2] + seed) % 3)],
     readout |-> [q \in 0..(nqubits - 1) |-> 1 + ((q * (seed + 1)) % 3)]]

\* Lines 256-264 with score_layouts true: the layouts are scored.  The
\* remaining arguments are first read here.
ScoreAll ==
    /\ lpc = "select"
    /\ \E badq \in BadQubitChoices, bade \in BadEdgeChoices, seed \in Seeds :
        LET pr == BackendProps(seed)
            r == lightweight_layout_error_scoring(pr, G_new.edges, layouts, badq, bade)
        IN  /\ props' = pr
            /\ bad_readout_qubits' = badq
            /\ bad_czgate_edges' = bade
            /\ scores' = r.scores
            /\ lpc' = IF r.raised THEN "raised" ELSE "scored"
            /\ lerr' = IF r.raised THEN "BackendPropertyError" ELSE lerr
    /\ score_layouts' = TRUE
    /\ UNCHANGED <<cvars, num_orbitals, num_ancillas, num_iters, isomorphic, G_new,
                   num_alpha_beta_qubits, layouts, selected, lret, zvars,
                   spc, virtual_edges, physical_layouts, idx, sret>>

\* Line 266: scores[0][0][:-num_alpha_beta_qubits].  The library does not
\* fix the order in which it yields the mappings and sorted() is stable, so
\* scores[0] is any entry of least score.
SelectScored ==
    /\ lpc = "scored"
    /\ IF scores = <<>>
       THEN /\ lpc' = "raised"
            /\ lerr' = "IndexError"
            /\ UNCHANGED <<selected, lret>>
       ELSE \E i \in DOMAIN scores :
                /\ scores[i][2] = scores[1][2]
                /\ selected' = scores[i][1]
                /\ lret' = <<SliceToMinus(scores[i][1], num_alpha_beta_qubits),
                             num_alpha_beta_qubits>>
                /\ lpc' = "returned"
                /\ lerr' = lerr
    /\ UNCHANGED <<cvars, num_orbitals, num_ancillas, score_layouts, num_iters,
                   isomorphic, G_new, num_alpha_beta_qubits, layouts, zvars, svars>>

\* Line 268 with score_layouts false: layouts[0], whichever mapping the
\* library yields first.
SelectFirst ==
    /\ lpc = "select"
    /\ \E badq \in BadQubitChoices, bade \in BadEdgeChoices :
        /\ bad_readout_qubits' = badq
        /\ bad_czgate_edges' = bade
    /\ props' = props
    /\ \E i \in DOMAIN layouts :
        /\ selected' = layouts[i]
        /\ lret' = <<SliceToMinus(layouts[i], num_alpha_beta_qubits), num_alpha_beta_qubits>>
    /\ lpc' = "returned"
    /\ score_layouts' = FALSE
    /\ UNCHANGED <<cvars, num_orbitals, num_ancillas, num_iters, isomorphic, G_new,
                   num_alpha_beta_qubits, layouts, lerr, zvars, sloc>>

\* ------------------------------------------------------------------------
\* Inputs
\* ------------------------------------------------------------------------

\* Coupling maps of a ring of nq qubits with some couplings missing and an
\* optional chord: coupling i joins qubit i and qubit (i + 1) % nq.  In mode
\* "oneway" each coupling is listed in one direction (ECR devices), in
\* "both" in both directions (CZ devices).
RECURSIVE RingMap(_, _, _, _)
RingMap(nq, gaps, mode, k) ==
    IF k = 0 THEN <<>>
    ELSE LET i == k - 1
             e == <<i, (i + 1) % nq>>
         IN  RingMap(nq, gaps, mode, k - 1)
             \o (IF i \in gaps THEN <<>>
                 ELSE IF mode = "both" THEN <<e, Rev(e)>> ELSE <<e>>)

ChordMap(nq, chord, mode) ==
    IF ~chord \/ nq < 4 THEN <<>>
    ELSE IF mode = "both" THEN << <<0, nq \div 2>>, <<nq \div 2, 0>> >>
    ELSE << <<nq \div 2, 0>> >>

Modes == {"oneway", "both"}

QubitCounts == {3, 4, MaxQubits}

\* The missing couplings of a ring: none, coupling 0, or coupling 0 and one
\* more, up to half way round (every other choice of two is a rotation or a
\* reflection of one of these).
GapChoices(nq) == {{}, {0}} \cup {{0, k} : k \in 1..(nq \div 2)}

LIdleLocals ==
    /\ graph = <<>> /\ edge_list = <<>> /\ epos = 0 /\ removed_edge = {}
    /\ score_layouts = FALSE /\ isomorphic = FALSE
    /\ G_new = [n |-> 0, edges |-> <<>>] /\ num_alpha_beta_qubits = 0
    /\ layouts = <<>> /\ selected = <<>> /\ lret = <<>> /\ lerr = ""

LInit ==
    /\ lpc = "cmap"
    /\ nqubits \in QubitCounts
    /\ \E gaps \in GapChoices(nqubits),
          chord \in BOOLEAN, mode \in Modes :
          coupling_map = RingMap(nqubits, gaps, mode, nqubits) \o ChordMap(nqubits, chord, mode)
    /\ digraph = coupling_map
    /\ num_orbitals \in 1..MaxOrbitals
    /\ num_ancillas \in 0..MaxAncillas
    /\ num_iters = num_orbitals + num_ancillas
    /\ LIdleLocals
    /\ props = [gate |-> <<>>, readout |-> <<>>]
    /\ bad_readout_qubits = {}
    /\ bad_czgate_edges = {}

\* Any coupling map on a few qubits: a list of distinct directed pairs.
CmapPairs == {e \in (0..(MaxCmapQubits - 1)) \X (0..(MaxCmapQubits - 1)) : e[1] # e[2]}

CInit ==
    /\ lpc = "cmap"
    /\ nqubits = MaxCmapQubits
    /\ coupling_map \in {s \in SeqsUpTo(CmapPairs, MaxCmapEdges) :
                            \A i, j \in DOMAIN s : i # j => s[i] # s[j]}
    /\ digraph = coupling_map
    /\ num_orbitals = 1
    /\ num_ancillas = 0
    /\ num_iters = 1
    /\ LIdleLocals
    /\ props = [gate |-> <<>>, readout |-> <<>>]
    /\ bad_readout_qubits = {}
    /\ bad_czgate_edges = {}

ZIdle ==
    /\ zpc = "idle" /\ method = "" /\ ydata = <<>> /\ popt = <<>>
    /\ fits = 0 /\ zret = <<>> /\ zerr = ""

SIdle ==
    /\ spc = "idle" /\ virtual_edges = <<>> /\ physical_layouts = <<>>
    /\ idx = 0 /\ scores = <<>> /\ sret = <<>>

LIdle ==
    /\ lpc = "idle" /\ nqubits = 0 /\ coupling_map = <<>> /\ digraph = <<>>
    /\ num_orbitals = 0 /\ num_ancillas = 0 /\ num_iters = 0
    /\ LIdleLocals

\* ------------------------------------------------------------------------
\* Specifications
\* ------------------------------------------------------------------------
InitZne ==
    /\ ZInit /\ SIdle /\ LIdle
    /\ props = [gate |-> <<>>, readout |-> <<>>]
    /\ bad_readout_qubits = {} /\ bad_czgate_edges = {}

ZNext == ZneFit \/ ZneReturn \/ ZneUnknown

SpecZne == InitZne /\ [][ZNext]_vars

InitScore == SInit /\ ZIdle /\ LIdle

SNext == ScoreLayout \/ ScoreReturn

SpecScore == InitScore /\ [][SNext]_vars

InitCmap == CInit /\ ZIdle /\ SIdle

CNext == CmapToUndirected \/ CmapRemoveEdge \/ CmapReturn

SpecCmap == InitCmap /\ [][CNext]_vars

InitLayout == LInit /\ ZIdle /\ SIdle

LNext ==
    \/ CmapToUndirected \/ CmapRemoveEdge \/ CmapReturn
    \/ LucjIterate \/ LucjReturn
    \/ ScoreAll \/ SelectScored \/ SelectFirst

SpecLayout == InitLayout /\ [][LNext]_vars

\* ========================================================================
\* Properties
\* ========================================================================
RECURSIVE SumOver(_, _)
SumOver(f, S) ==
    IF S = {} THEN 0
    ELSE LET x == CHOOSE y \in S : TRUE IN f[x] + SumOver(f, S \ {x})

Occurrences(seq, x) == Cardinality({i \in DOMAIN seq : seq[i] = x})

\* C1: the list lightweight_layout_error_scoring returns is in ascending
\* order of error score: each entry's score is at most the next entry's.
C1_SortedAscending ==
    spc = "returned" =>
        \A i \in 1..(Len(sret) - 1) : sret[i][2] <= sret[i + 1][2]

\* Three layouts were scored, out of order, and returned.
C1_Witness ==
    /\ spc = "returned"
    /\ Len(sret) = 3
    /\ scores[1][2] > scores[2][2]
    /\ sret[1][2] < sret[3][2]

\* A layout is excluded when one of its qubits is a bad readout qubit or a
\* virtual edge lands, in either direction, on a bad coupling.
IsExcluded(l) ==
    \/ \E i \in 1..Len(l) : l[i] \in bad_readout_qubits
    \/ \E k \in 1..Len(virtual_edges) :
          LET u == virtual_edges[k][1]
              v == virtual_edges[k][2]
          IN  \/ <<l[u + 1], l[v + 1]>> \in bad_czgate_edges
              \/ <<l[v + 1], l[u + 1]>> \in bad_czgate_edges

ReturnedLayouts == [i \in 1..Len(sret) |-> sret[i][1]]

\* C2: the returned list holds exactly the input layouts that are not
\* excluded: an excluded layout never appears, and every other layout appears
\* as often as it does in physical_layouts.
C2_ExactlyNonExcluded ==
    spc = "returned" =>
        \A l \in ScoreLayouts :
            Occurrences(ReturnedLayouts, l) =
                IF IsExcluded(l) THEN 0 ELSE Occurrences(physical_layouts, l)

\* One layout was dropped for a bad readout qubit, one only because a
\* virtual edge lands on the reverse of a bad coupling, and one was kept.
C2_Witness ==
    /\ spc = "returned"
    /\ Len(sret) >= 1
    /\ \E i \in 1..Len(physical_layouts) :
          \E q \in 1..3 : physical_layouts[i][q] \in bad_readout_qubits
    /\ \E i \in 1..Len(physical_layouts) :
          /\ \A q \in 1..3 : physical_layouts[i][q] \notin bad_readout_qubits
          /\ \A k \in 1..Len(virtual_edges) :
                PhysicalEdge(physical_layouts[i], virtual_edges[k]) \notin bad_czgate_edges
          /\ IsExcluded(physical_layouts[i])

\* The gate error the claim assigns to virtual edge e under layout l: that of
\* (l[u], l[v]), or of the other direction when only that one is defined.
ClaimedGateError(l, e) ==
    LET pe == <<l[e[1] + 1], l[e[2] + 1]>>
    IN  IF pe \in DOMAIN props.gate THEN props.gate[pe]
        ELSE props.gate[<<pe[2], pe[1]>>]

ClaimedScore(l, vedges) ==
    SumOver([k \in 1..Len(vedges) |-> ClaimedGateError(l, vedges[k])], 1..Len(vedges))
    + SumOver([i \in 1..Len(l) |-> props.readout[l[i]]], 1..Len(l))

OneDirectionOnly(pe) ==
    (pe \in DOMAIN props.gate) # (<<pe[2], pe[1]>> \in DOMAIN props.gate)

Flipped(vedges, k) == [vedges EXCEPT ![k] = <<vedges[k][2], vedges[k][1]>>]

\* What the loop body computes for layout l under the edge list vedges.
CodeScore(l, vedges) ==
    Total2qError(props, l, vedges, Len(vedges))[1]
    + TotalMeasurementError(props, l, Len(l))

\* C3: every returned score is the sum of the gate errors of the virtual
\* edges' physical pairs plus the readout errors of the layout's qubits, and
\* listing a virtual edge the other way round does not change the score when
\* its physical pair has a gate error in one direction only.
C3_ScoreIsErrorSum ==
    spc = "returned" =>
        \A i \in 1..Len(sret) :
            /\ sret[i][2] = ClaimedScore(sret[i][1], virtual_edges)
            /\ \A k \in 1..Len(virtual_edges) :
                  OneDirectionOnly(PhysicalEdge(sret[i][1], virtual_edges[k])) =>
                      CodeScore(sret[i][1], Flipped(virtual_edges, k)) = sret[i][2]

\* A returned layout has a virtual edge whose physical pair has a gate error
\* in the reverse direction only, and another with unequal errors both ways.
C3_Witness ==
    /\ spc = "returned"
    /\ \E i \in 1..Len(sret), k \in 1..Len(virtual_edges) :
          LET pe == PhysicalEdge(sret[i][1], virtual_edges[k])
          IN  pe \notin DOMAIN props.gate /\ Rev(pe) \in DOMAIN props.gate
    /\ \E i \in 1..Len(sret), k \in 1..Len(virtual_edges) :
          LET pe == PhysicalEdge(sret[i][1], virtual_edges[k])
          IN  /\ pe \in DOMAIN props.gate /\ Rev(pe) \in DOMAIN props.gate
              /\ props.gate[pe] # props.gate[Rev(pe)]

\* The edges of a graph as a set of unordered pairs.
EdgeSet(G) == {{G.edges[i][1], G.edges[i][2]} : i \in 1..Len(G.edges)}

\* The zigzag pattern of the claim: chains 0..N-1 and N..2N-1, and c
\* connecting nodes 2N+j, each joined to 4j and to 4j+N.
PatternEdges(N, c) ==
    {{i, i + 1} : i \in 0..(N - 2)}
    \cup {{N + i, N + i + 1} : i \in 0..(N - 2)}
    \cup {{2 * N + j, 4 * j} : j \in 0..(c - 1)}
    \cup {{2 * N + j, 4 * j + N} : j \in 0..(c - 1)}

RECURSIVE SetToSeq(_)
SetToSeq(S) ==
    IF S = {} THEN <<>>
    ELSE LET x == CHOOSE y \in S : TRUE IN <<x>> \o SetToSeq(S \ {x})

PairOf(e) ==
    LET u == CHOOSE x \in e : \A y \in e : x <= y
        v == CHOOSE x \in e : \A y \in e : x >= y
    IN  <<u, v>>

PatternGraph(N, c) ==
    LET es == SetToSeq(PatternEdges(N, c))
    IN  [n |-> 2 * N + c, edges |-> [i \in 1..Len(es) |-> PairOf(es[i])]]

\* The library's test (a node-induced subgraph of the backend graph is
\* isomorphic to the pattern) on the backend graph of the current state.
BackendHolds(P) == is_subgraph_isomorphic(BackendGraph, P)

\* The state in which create_lucj_zigzag_layout has just returned.
LucjReturned == lpc = "select"

\* C4: when create_lucj_zigzag_layout returns (G_new, c), G_new is the
\* zigzag pattern with c connecting nodes, the backend graph holds it, and it
\* holds no such pattern with more connecting nodes, up to ceil(N/4).
C4_MaximalZigzag ==
    LucjReturned =>
        LET N == TotalOrbitals
            c == num_alpha_beta_qubits
        IN  /\ G_new.n = 2 * N + c
            /\ EdgeSet(G_new) = PatternEdges(N, c)
            /\ Len(G_new.edges) = Cardinality(PatternEdges(N, c))
            /\ BackendHolds(PatternGraph(N, c))
            /\ \A c2 \in (c + 1)..((N + 3) \div 4) : ~BackendHolds(PatternGraph(N, c2))

\* Five orbitals in all on a twelve-qubit ring: two connecting qubits.
C4_Witness ==
    /\ LucjReturned
    /\ TotalOrbitals = 5
    /\ num_alpha_beta_qubits = 2

Coupled(u, v) == <<u, v>> \in Range(coupling_map) \/ <<v, u>> \in Range(coupling_map)

\* C5: the layout get_zigzag_physical_layout returns lists
\* 2 * (num_orbitals + num_ancillas) distinct qubits of the backend, the
\* neighbours within a chain are coupled, and the count returned with it is
\* the number of connecting qubits of the embedded pattern; for every count,
\* zero included.
C5_CompliantLayout ==
    lpc = "returned" =>
        LET l == lret[1]
            N == TotalOrbitals
        IN  /\ Len(l) = 2 * N
            /\ \A i \in 1..Len(l) : l[i] \in 0..(nqubits - 1)
            /\ \A i, j \in 1..Len(l) : i # j => l[i] # l[j]
            /\ \A i \in 1..(Len(l) - 1) : i # N => Coupled(l[i], l[i + 1])
            /\ lret[2] = G_new.n - 2 * N

\* C6: whatever score_layouts is, the embedding selected uses no qubit of
\* bad_readout_qubits and puts no pattern edge on a pair of bad_czgate_edges
\* in either direction, and the returned layout has no bad readout qubit.
C6_ExcludesUnreliable ==
    lpc = "returned" =>
        /\ \A i \in 1..Len(selected) : selected[i] \notin bad_readout_qubits
        /\ \A k \in 1..Len(G_new.edges) :
              LET pe == <<selected[G_new.edges[k][1] + 1], selected[G_new.edges[k][2] + 1]>>
              IN  pe \notin bad_czgate_edges /\ <<pe[2], pe[1]>> \notin bad_czgate_edges
        /\ \A i \in 1..Len(lret[1]) : lret[1][i] \notin bad_readout_qubits

\* C7: zne_method returns, for the three known methods, the zero-noise
\* estimate of the fitted parameters (b, c, a + c), ydata as given, the
\* parameters and the method's model; for any other method it raises
\* ValueError and fits nothing.
C7_ZneDispatch ==
    /\ zpc = "returned" =>
          /\ method \in {"linear", "quadratic", "exponential"}
          /\ zret[2] = ydata
          /\ zret[3] = popt
          /\ method = "linear" =>
                zret[4] = "linear_model" /\ Len(popt) = 2 /\ zret[1] = popt[2]
          /\ method = "quadratic" =>
                zret[4] = "quadratic_model" /\ Len(popt) = 3 /\ zret[1] = popt[3]
          /\ method = "exponential" =>
                zret[4] = "exponential_model" /\ Len(popt) = 3
                /\ zret[1] = popt[1] + popt[3]
    /\ (method \notin {"linear", "quadratic", "exponential"} /\ zpc # "call") =>
          zpc = "raised" /\ zerr = "ValueError" /\ fits = 0 /\ zret = <<>>

\* A linear fit with slope and intercept apart was returned.
C7_Witness ==
    /\ zpc = "returned"
    /\ method = "linear"
    /\ popt[1] # popt[2]
    /\ ydata # <<>>

\* C8: the graph _make_backend_cmap_pygraph returns has the backend's qubits
\* and exactly one undirected edge between two qubits when the coupling map
\* lists the pair in one direction or both, and none otherwise.
C8_SimpleUndirected ==
    lpc = "lucj" =>
        /\ BackendGraph.n = nqubits
        /\ \A i \in 1..Len(graph) : graph[i][1] \in 0..(nqubits - 1)
                                    /\ graph[i][2] \in 0..(nqubits - 1)
        /\ \A u, v \in 0..(nqubits - 1) :
              u # v => Multiplicity(graph, u, v) = IF Coupled(u, v) THEN 1 ELSE 0

\* The map lists one pair in one direction only and another in both.
C8_Witness ==
    /\ lpc = "lucj"
    /\ \E i \in 1..Len(coupling_map) : Rev(coupling_map[i]) \notin Range(coupling_map)
    /\ \E i \in 1..Len(coupling_map) : Rev(coupling_map[i]) \in Range(coupling_map)

====
